---- MODULE Spec2Model ----
(***************************************************************************)
(* A model of ptb.pe (src/src/ptb/pe.py): the scheduling loop of start(),  *)
(* the worker wrapper _pe_wrapper(), the checkpoint and progress files,    *)
(* and the test function _testfunc() as the user function.                 *)
(*                                                                         *)
(* Jobs are numbered 1..num_jobs here (the source numbers them from 0).    *)
(*                                                                         *)
(* Spec is the code as it stands: the grid submission of lines 396-402 is  *)
(* commented out, so a remote dispatch only sets status 3.  SpecGrid is    *)
(* the same loop with that submission put back and a grid backend behind   *)
(* it that behaves as futures do (done, cancelled, result or exception);   *)
(* the loop's remote reaping code, lines 430-458, is exercised only there. *)
(* SpecSelf is Spec given a user function that returns checkpoint(state)   *)
(* on its own account.  SpecLive is Spec with the fairness of a loop and   *)
(* of worker processes that keep running, and SpecBig is SpecLive given a  *)
(* user function whose return value does not fit the worker's pipe.        *)
(* SpecTag is Spec given a user function that calls write_checkpoint with *)
(* a tag, and a caller that calls restore_checkpoint afterwards.           *)
(* SpecCodec writes a checkpoint file with write_checkpoint and reads it   *)
(* back with load_checkpoint_state.                                        *)
(***************************************************************************)
EXTENDS Integers, Sequences, FiniteSets, TLC

\* ---------------------------------------------------------------- bounds
MaxJobs == 2        \* len(inputs) ranges over 0..MaxJobs
MaxLocals == 2      \* num_locals ranges over 0..MaxLocals
MaxRemotes == 1     \* num_remotes ranges over 0..MaxRemotes
CountTo == 2        \* count_to of every job's _testfunc call
MaxTuple == 2       \* longest tuple among the states given to write_checkpoint

\* ------------------------------------------------------- job status codes
Waiting == 0
RunningInline == 1
RunningLocal == 2
RunningRemote == 3
Finished == 4
Errored == 5
AwaitingCheckpointFile == 6

\* ----------------------------------------------------------------- values
NoError == -1       \* error_at = None
NoState == -1       \* start_state = None
NoFile == -1        \* the file does not exist
Partial == -3       \* the file is there, opened by write_checkpoint, the
                    \* pickle not, or not all, in it
NoBytes == << >>    \* in tagfile: there is no such file
TagCp == -5         \* in inputs: a function that calls write_checkpoint(state,
                    \* tag) in every pass of its loop and goes on
BigRet == -4        \* in inputs: a function whose return value, pickled, does
                    \* not fit the buffer of the worker's pipe
SelfCp == -2        \* in place of error_at: the job's function checkpoints on
                    \* its own account, see SelfCheckpoints

\* rets[] entries and worker return values.  One record shape for all of
\* them, so that any two can be compared.
None == [t |-> "none", v |-> 0, msg |-> ""]
Val(n) == [t |-> "val", v |-> n, msg |-> ""]
ParexecErrorReturn(m) == [t |-> "per", v |-> 0, msg |-> m]
IsPER(r) == r.t = "per"

Terminated == ParexecErrorReturn("terminated")
Checkpointed == ParexecErrorReturn("checkpointed")
\* traceback.format_exc() of the exception caught at that place
Traceback == ParexecErrorReturn("traceback")

Keys == 1..MaxJobs
\* error_at of a job: None, or the last pass of the loop
ErrorAts == {NoError, CountTo - 1}
\* what a job's function does: _testfunc with one of these values of error_at,
\* or the self-checkpointing function
Behaviours == ErrorAts \cup {SelfCp}

VARIABLES
    pc,                 \* where start() is
    inputs,             \* inputs[j]: error_at of job j (count_to is CountTo),
                        \* or SelfCp
    jobids,             \* jobids[j]
    debug, num_locals, num_remotes,
    status, rets, num_cps_done,
    local_running_jobs, remote_futures,
    worker,             \* worker[j]: the process or grid task running job j
    cpfile,             \* cpfile[k]: state held by <k>.checkpoint, or NoFile
    unsynced,           \* keys whose checkpoint file the server does not see yet
    progfile,           \* progfile[k]: number held by <k>.progress, or NoFile
    errlog,             \* errlog[j]: what start() has appended to job j's
                        \* .stderr file, one entry per write
    pending,            \* history variable.  pending[j]: the state that job j's
                        \* last invocation passed to checkpoint(), until the
                        \* next invocation starts; NoState when there is none
                        \* or when that invocation was cut off
    loads,              \* history variable.  loads[j]: how many times an
                        \* invocation of job j has loaded a checkpoint file
    cp_failed,          \* history variable: the jobs an invocation of which
                        \* failed to read or to write a checkpoint file
    codec,              \* one call of write_checkpoint and what is read back
                        \* from its file, followed byte by byte (SpecCodec)
    tagfile,            \* tagfile[k]: the bytes of <k>.checkpoint_<tag>, the
                        \* file of write_checkpoint(state, tag), or NoBytes
    bar_progress        \* bar_progress.n, the progress shown, as the quotient
                        \* num / den that line 501 computes

vars == <<pc, inputs, jobids, debug, num_locals, num_remotes, status, rets,
          num_cps_done, local_running_jobs, remote_futures, worker, cpfile,
          unsynced, progfile, errlog, pending, loads, cp_failed, codec, tagfile, bar_progress>>

config == <<inputs, jobids, debug, num_locals, num_remotes>>
arrays == <<status, rets, num_cps_done>>
files == <<cpfile, unsynced, progfile>>

num_jobs == Len(inputs)
Jobs == 1..num_jobs

\* cp_fname_bases[j]: <cp_path>/<idstr>__<jobids[j]>
Key(j) == jobids[j]

\* the float num / den
Quotient(num, den) == [num |-> num, den |-> den]

\* lines 142 and 234-235: show_bars, True unless given otherwise, is made
\* False by debug
ShowBars == ~debug

\* late: time.monotonic() has passed the worker's my_end_time
Idle == [loc |-> "none", pc |-> "idle", start_state |-> NoState, i |-> 0,
         ret |-> None, out |-> "empty", late |-> FALSE]

\* os.path.exists(cp_fname_base + ".checkpoint") evaluated on the server
ServerSeesCp(k) == cpfile[k] # NoFile /\ k \notin unsynced

\* jobids as supplied: the default "job%d" ids are the identity; supplied ids
\* may repeat.  Taken up to renaming: jobids[j] <= j.
JobidChoices(n) == {f \in [1..n -> Keys] : \A j \in 1..n : f[j] <= j}

\* files found in cp_path at entry: at most one, of either kind
PreExisting ==
    {[cp |-> [k \in Keys |-> NoFile], prog |-> [k \in Keys |-> NoFile]]}
    \cup {[cp |-> [k \in Keys |-> IF k = x THEN 0 ELSE NoFile],
           prog |-> [k \in Keys |-> NoFile]] : x \in Keys}
    \cup {[cp |-> [k \in Keys |-> NoFile],
           prog |-> [k \in Keys |-> IF k = x THEN 0 ELSE NoFile]] : x \in Keys}

\* ------------------------------------------- checkpoint files, byte by byte

\* Python values that a state or an argument list is made of
PyNone == [t |-> "none", v |-> << >>]
PyInt(n) == [t |-> "int", v |-> <<n>>]
PyTuple(ns) == [t |-> "tuple", v |-> ns]

\* tuples of small integers, up to MaxTuple long
RECURSIVE TuplesUpTo(_)
TuplesUpTo(n) ==
    IF n = 0 THEN {<< >>}
    ELSE TuplesUpTo(n - 1) \cup [1..n -> 0..1]

\* the states handed to write_checkpoint
CpStates ==
    {PyNone} \cup {PyInt(n) : n \in 0..CountTo}
             \cup {PyTuple(ns) : ns \in TuplesUpTo(MaxTuple)}

\* line 106: Cpdata = namedtuple("Cpdata", ["state", "func", "input"])
Cpdata(state, func, input) == [state |-> state, func |-> func, input |-> input]

\* one element of a pickle stream
Tok(op, n) == [op |-> op, n |-> n]

\* pickle.dump of a value (line 597)
Dumps(val) ==
    CASE val.t = "none" -> <<Tok("NONE", 0)>>
      [] val.t = "int" -> <<Tok("BININT", val.v[1])>>
      [] OTHER -> <<Tok("MARK", 0)>>
                  \o [i \in 1..Len(val.v) |-> Tok("BININT", val.v[i])]
                  \o <<Tok("TUPLE", 0)>>

\* pickle.dump of a Cpdata: the class and the function go in by reference
DumpsCpdata(cp) ==
    <<Tok("GLOBAL", 0)>> \o Dumps(cp.state) \o <<Tok("GLOBAL", cp.func)>>
        \o Dumps(cp.input) \o <<Tok("NEWOBJ", 0), Tok("STOP", 0)>>

\* pickle.load of the value that starts at position p of stream b: the value
\* and the position after it
Loads(b, p) ==
    CASE b[p].op = "NONE" -> [val |-> PyNone, next |-> p + 1]
      [] b[p].op = "BININT" -> [val |-> PyInt(b[p].n), next |-> p + 1]
      [] OTHER ->
            LET q == CHOOSE q \in (p + 1)..Len(b) :
                        /\ b[q].op = "TUPLE"
                        /\ \A r \in (p + 1)..(q - 1) : b[r].op = "BININT"
            IN [val |-> PyTuple([i \in 1..(q - p - 1) |-> b[p + i].n]),
                next |-> q + 1]

\* pickle.load of a Cpdata (lines 606, 615)
LoadsCpdata(b) ==
    LET st == Loads(b, 2)
        fn == b[st.next]
        inp == Loads(b, st.next + 1)
    IN Cpdata(st.val, fn.n, inp.val)

\* lz4.frame.open(cp_file, mode="w"): what is written goes into one frame
\* with a header that holds its size and an end mark after it (line 595)
Lz4Write(b) == <<Tok("MAGIC", 0), Tok("SIZE", Len(b))>> \o b \o <<Tok("ENDMARK", 0)>>

\* lz4.frame.open(fname, mode="r"): the content of the frame (lines 605, 614)
Lz4Read(frame) == SubSeq(frame, 3, 2 + frame[2].n)

\* lines 590-593: the file name, without or with a tag
CpFileName(tag) ==
    IF tag = "" THEN <<"my_cp_fname_base", ".checkpoint">>
    ELSE <<"my_cp_fname_base", ".checkpoint", "_", tag>>

\* mutant: the record is read back with its fields in another order
load_checkpoint_state_WrongField(frame) == LoadsCpdata(Lz4Read(frame)).input

\* lines 601-607
load_checkpoint_state(frame) == LoadsCpdata(Lz4Read(frame)).state

\* lines 609-616: the record is read, and the call is made from its fields
\* state, func and args; a record without one of them stops the call with an
\* AttributeError
restore_checkpoint(frame) ==
    LET cp == LoadsCpdata(Lz4Read(frame)) IN
    IF {"state", "func", "args"} \subseteq DOMAIN cp
    THEN "called" ELSE "AttributeError"

\* lines 595-597 in a call with a tag: the bytes of the file, st being the
\* state passed
TagFrame(st) ==
    Lz4Write(DumpsCpdata(Cpdata(PyInt(st), 1, PyTuple(<<CountTo>>))))

\* no call of write_checkpoint is being followed
CodecOff ==
    [phase |-> "off", state |-> PyNone, tag |-> "", input |-> PyNone,
     path |-> << >>, frame |-> << >>, out |-> PyNone]

\* start() is entered, with jobs whose functions behave as B lists
InitWith(B) ==
    /\ pc = "init"
    /\ \E n \in 0..MaxJobs :
          /\ inputs \in [1..n -> B]
          /\ jobids \in JobidChoices(n)
    /\ debug \in BOOLEAN
    /\ num_locals \in 0..MaxLocals
    /\ num_remotes \in 0..MaxRemotes
    /\ status = << >>
    /\ rets = << >>
    /\ num_cps_done = << >>
    /\ local_running_jobs = {}
    /\ remote_futures = {}
    /\ worker = [j \in 1..MaxJobs |-> Idle]
    /\ \E f \in PreExisting : cpfile = f.cp /\ progfile = f.prog
    /\ unsynced = {}
    /\ errlog = [j \in 1..MaxJobs |-> << >>]
    /\ pending = [j \in 1..MaxJobs |-> NoState]
    /\ loads = [j \in 1..MaxJobs |-> 0]
    /\ cp_failed = {}
    /\ codec = CodecOff
    /\ tagfile = [k \in Keys |-> NoBytes]
    /\ bar_progress = Quotient(0, 1)

\* the user function is _testfunc
Init == InitWith(ErrorAts)

\* the user function is _testfunc, or for some jobs the self-checkpointing one
InitSelf == InitWith(Behaviours)

\* ------------------------------------------------------- start(): startup

\* line 273: len(set(jobids)) == len(jobids)
JobidsUnique == \A a, b \in Jobs : jobids[a] = jobids[b] => a = b

\* lines 299-303: no .checkpoint and no .progress file under any job's key
CpPathClean ==
    \A j \in Jobs : ~ServerSeesCp(Key(j)) /\ progfile[Key(j)] = NoFile

\* mutant: the entry checks without the uniqueness assertion of line 273
StartupChecksPass_NoUniqueCheck == num_jobs > 0 /\ CpPathClean

\* the assertions of lines 228, 273 and 299-303
StartupChecksPass == num_jobs > 0 /\ JobidsUnique /\ CpPathClean

\* lines 228-315 with every assertion passing: the arrays are created
Startup ==
    /\ pc = "init"
    /\ StartupChecksPass
    /\ status' = [j \in Jobs |-> Waiting]
    /\ rets' = [j \in Jobs |-> None]
    /\ num_cps_done' = [j \in Jobs |-> 0]
    /\ pc' = "loop"
    /\ UNCHANGED <<config, local_running_jobs, remote_futures, worker, files,
                   pending, errlog, loads, cp_failed, codec, tagfile, bar_progress>>

\* an assertion of lines 228-303 fails: AssertionError out of start()
StartupFails ==
    /\ pc = "init"
    /\ ~StartupChecksPass
    /\ pc' = "failed"
    /\ UNCHANGED <<config, arrays, local_running_jobs, remote_futures, worker,
                   files, pending, errlog, loads, cp_failed, codec, tagfile, bar_progress>>

\* ------------------------------------------------ start(): the while loop

\* line 350: any(status < 4)
LoopContinues == \E j \in Jobs : status[j] < 4

\* line 353: not all(status > 0)
AnyWaiting == \E j \in Jobs : status[j] = Waiting

\* mutant: argmin over num_cps_done without the mask of running and ended jobs
nextidx_Unmasked ==
    CHOOSE j \in Jobs :
        \A k \in Jobs :
            \/ num_cps_done[j] < num_cps_done[k]
            \/ (num_cps_done[j] = num_cps_done[k] /\ j <= k)

\* mutant: the last of the unmasked entries that hold the least value
nextidx_LastWaiting ==
    CHOOSE j \in Jobs :
        /\ status[j] = Waiting
        /\ \A k \in Jobs : status[k] = Waiting =>
              \/ num_cps_done[j] < num_cps_done[k]
              \/ (num_cps_done[j] = num_cps_done[k] /\ j >= k)

\* line 356: np.ma.MaskedArray(num_cps_done, status > 0).argmin(): the first
\* of the unmasked entries that hold the least value
nextidx ==
    CHOOSE j \in Jobs :
        /\ status[j] = Waiting
        /\ \A k \in Jobs : status[k] = Waiting =>
              \/ num_cps_done[j] < num_cps_done[k]
              \/ (num_cps_done[j] = num_cps_done[k] /\ j <= k)

\* mutant: <= in place of < in line 378
LocalSlotFree_OffByOne == Cardinality(local_running_jobs) <= num_locals

\* line 378: a local slot is free
LocalSlotFree == Cardinality(local_running_jobs) < num_locals

\* line 392: a grid slot is free
RemoteSlotFree == Cardinality(remote_futures) < num_remotes

\* a process or grid task just created: it has not run _pe_wrapper yet
Spawn(where) == [Idle EXCEPT !.loc = where, !.pc = "boot"]

\* a worker whose call of func has ended with ret (lines 563-566): the
\* function's own variables are gone
Returned(where, ret) == [Idle EXCEPT !.loc = where, !.pc = "ret", !.ret = ret]

\* a process or grid task that has ended: out is what it left behind, ret the
\* value that can be read from it
Ended(where, out, ret) ==
    [Idle EXCEPT !.loc = where, !.pc = "dead", !.out = out, !.ret = ret]

\* line 350 false: the loop ends, the finally block is next
LoopExit ==
    /\ pc = "loop"
    /\ ~LoopContinues
    /\ bar_progress' = IF ShowBars THEN Quotient(100, 1)      \* lines 507-511
                       ELSE bar_progress
    /\ pc' = "finally"
    /\ UNCHANGED <<config, arrays, local_running_jobs, remote_futures, worker,
                   files, pending, errlog, loads, cp_failed, codec, tagfile>>

\* lines 358-362: debug mode, the job is about to run in the scheduler
DispatchInline ==
    /\ pc = "loop" /\ LoopContinues /\ AnyWaiting
    /\ debug
    /\ status' = [status EXCEPT ![nextidx] = RunningInline]
    /\ pc' = "inline"
    /\ UNCHANGED <<config, rets, num_cps_done, local_running_jobs,
                   remote_futures, worker, files, pending, errlog, loads, cp_failed, codec, tagfile, bar_progress>>

\* mutant: the local dispatch followed by the next pass at once, without the
\* sleep of line 407 and the reaping and scanning of lines 409-473
DispatchLocal_NoPacing ==
    /\ pc = "loop" /\ LoopContinues /\ AnyWaiting
    /\ ~debug
    /\ LocalSlotFree
    /\ local_running_jobs' = local_running_jobs \cup {nextidx}
    /\ worker' = [worker EXCEPT ![nextidx] = Spawn("local")]
    /\ status' = [status EXCEPT ![nextidx] = RunningLocal]
    /\ pc' = "loop"
    /\ UNCHANGED <<config, rets, num_cps_done, remote_futures, files, pending,
                   errlog, loads, cp_failed, codec, tagfile, bar_progress>>

\* lines 378-390: a worker process is started
DispatchLocal ==
    /\ pc = "loop" /\ LoopContinues /\ AnyWaiting
    /\ ~debug
    /\ LocalSlotFree
    /\ local_running_jobs' = local_running_jobs \cup {nextidx}
    /\ worker' = [worker EXCEPT ![nextidx] = Spawn("local")]
    /\ status' = [status EXCEPT ![nextidx] = RunningLocal]
    /\ pc' = "reap"
    /\ UNCHANGED <<config, rets, num_cps_done, remote_futures, files, pending,
                   errlog, loads, cp_failed, codec, tagfile, bar_progress>>

\* lines 392-403 as they stand: the submission is commented out, nothing is
\* added to remote_futures and nothing runs
DispatchRemote ==
    /\ pc = "loop" /\ LoopContinues /\ AnyWaiting
    /\ ~debug
    /\ ~LocalSlotFree
    /\ RemoteSlotFree
    /\ status' = [status EXCEPT ![nextidx] = RunningRemote]
    /\ pc' = "reap"
    /\ UNCHANGED <<config, rets, num_cps_done, local_running_jobs,
                   remote_futures, worker, files, pending, errlog, loads, cp_failed, codec, tagfile, bar_progress>>

\* lines 392-403 with the submission of lines 396-402 in place
DispatchRemoteGrid ==
    /\ pc = "loop" /\ LoopContinues /\ AnyWaiting
    /\ ~debug
    /\ ~LocalSlotFree
    /\ RemoteSlotFree
    /\ remote_futures' = remote_futures \cup {nextidx}
    /\ worker' = [worker EXCEPT ![nextidx] = Spawn("remote")]
    /\ status' = [status EXCEPT ![nextidx] = RunningRemote]
    /\ pc' = "reap"
    /\ UNCHANGED <<config, rets, num_cps_done, local_running_jobs, files,
                   pending, errlog, loads, cp_failed, codec, tagfile, bar_progress>>

\* lines 353-403 with nothing started: no job waits, or no slot is free
NoDispatch ==
    /\ pc = "loop" /\ LoopContinues
    /\ \/ ~AnyWaiting
       \/ (~debug /\ ~LocalSlotFree /\ ~RemoteSlotFree)
    /\ pc' = "reap"
    /\ UNCHANGED <<config, arrays, local_running_jobs, remote_futures, worker,
                   files, pending, errlog, loads, cp_failed, codec, tagfile, bar_progress>>

\* ------------------------------------------------- _testfunc and its calls

\* line 627: np.ceil(100 * progress), with progress = i / count_to (line 648)
Progress100(i) == (100 * i + CountTo - 1) \div CountTo

\* lines 636-639: start_val
StartVal(state) == IF state # NoState THEN state ELSE 0

\* lines 641-651, one pass of the for loop at counter i, up to the call of
\* progressrep: the loop is over, the pass raises, or progress is reported
TestfuncAt(i, error_at) ==
    IF i >= CountTo THEN "return"
    ELSE IF i = error_at THEN "raise"
    ELSE "progressrep"

\* the self-checkpointing function: when its behaviour says so and it was
\* started without a state, it returns checkpoint(i + 1) after its call of
\* progressrep whatever the answer was (the use described in lines 36-40 of
\* the module docstring, minus the test of the answer)
SelfCheckpoints(beh, state) == beh = SelfCp /\ state = NoState

\* line 373: func(None, ...) run to its end in the scheduler.  my_end_time is
\* nan (line 369), so progressrep answers False every time (line 629).
\* prog is the content of the job's .progress file so far; cp is the state
\* the function passes to checkpoint(), if it does.
RECURSIVE InlineRun(_, _, _)
InlineRun(i, beh, prog) ==
    CASE TestfuncAt(i, beh) = "return" ->
             [kind |-> "return", ret |-> Val(CountTo), prog |-> prog,
              cp |-> NoState]
      [] TestfuncAt(i, beh) = "raise" ->
             [kind |-> "raise", ret |-> None, prog |-> prog, cp |-> NoState]
      [] OTHER ->
             IF SelfCheckpoints(beh, NoState)
             THEN [kind |-> "checkpoint", ret |-> Checkpointed,
                   prog |-> Progress100(i), cp |-> i + 1]
             ELSE InlineRun(i + 1, beh, Progress100(i))

\* the job running in the scheduler (status 1)
InlineJob == CHOOSE j \in Jobs : status[j] = RunningInline

InlineResult == InlineRun(StartVal(NoState), inputs[InlineJob], progfile[Key(InlineJob)])

\* lines 373-375: the call returns, with its value or with what checkpoint()
\* returned after writing the file (lines 579-580)
InlineReturn ==
    /\ pc = "inline"
    /\ InlineResult.kind \in {"return", "checkpoint"}
    /\ rets' = [rets EXCEPT ![InlineJob] = InlineResult.ret]
    /\ status' = [status EXCEPT ![InlineJob] = Finished]
    /\ progfile' = [progfile EXCEPT ![Key(InlineJob)] = InlineResult.prog]
    /\ cpfile' = IF InlineResult.kind = "checkpoint"
                 THEN [cpfile EXCEPT ![Key(InlineJob)] = InlineResult.cp]
                 ELSE cpfile
    /\ pending' = [pending EXCEPT ![InlineJob] = InlineResult.cp]
    /\ tagfile' = IF inputs[InlineJob] = TagCp
                  THEN [tagfile EXCEPT ![Key(InlineJob)] = TagFrame(CountTo)]
                  ELSE tagfile
    /\ pc' = "reap"
    /\ UNCHANGED <<config, num_cps_done, local_running_jobs, remote_futures,
                   worker, unsynced, errlog, loads, cp_failed, codec,
                   bar_progress>>

\* line 373: the call raises, by its own raise or because write_checkpoint
\* failed (lines 595-597); nothing catches it before the finally block
InlineRaise ==
    /\ pc = "inline"
    /\ InlineResult.kind \in {"raise", "checkpoint"}
    /\ progfile' = [progfile EXCEPT ![Key(InlineJob)] = InlineResult.prog]
    /\ cp_failed' = IF InlineResult.kind = "checkpoint"
                    THEN cp_failed \cup {InlineJob} ELSE cp_failed
    /\ pc' = "finally_exc"
    /\ UNCHANGED <<config, arrays, local_running_jobs, remote_futures, worker,
                   cpfile, unsynced, pending, errlog, loads, codec, tagfile, bar_progress>>

\* ----------------------------------------------- start(): reaping, scanning

\* line 412: not job.process.is_alive()
Dead(j) == worker[j].pc = "dead"

\* mutant: line 425 outside the else branch, a worker that left nothing in its
\* pipe is marked Finished like the others
LocalReaped_FinishedOnEmptyPipe(j) ==
    IF worker[j].out = "empty"
    THEN [ret |-> Terminated, st |-> Finished]
    ELSE IF worker[j].out = "data"
    THEN [ret |-> worker[j].ret, st |-> Finished]
    ELSE [ret |-> Traceback, st |-> Finished]

\* lines 414-425 for one dead local worker: the new result and status
LocalReaped(j) ==
    IF worker[j].out = "empty"
    THEN [ret |-> Terminated, st |-> status[j]]                  \* line 416
    ELSE IF worker[j].out = "data"
    THEN [ret |-> worker[j].ret, st |-> Finished]                \* lines 420, 425
    ELSE [ret |-> Traceback, st |-> Finished]                    \* lines 423, 425

\* mutant: no test of rf.cancelled(); result() of a cancelled future raises and
\* the except branch records the traceback
RemoteReaped_NoCancelledTest(j) ==
    LET r == IF worker[j].out = "data" THEN worker[j].ret ELSE Traceback
    IN IF IsPER(r) /\ r.msg = "checkpointed"
       THEN [ret |-> None, st |-> AwaitingCheckpointFile]
       ELSE [ret |-> r, st |-> Finished]

\* lines 435-456 for one done future: the new result and status
RemoteReaped(j) ==
    IF worker[j].out = "empty"                                   \* rf.cancelled()
    THEN [ret |-> Terminated, st |-> status[j]]                  \* line 437
    ELSE LET r == IF worker[j].out = "data" THEN worker[j].ret   \* line 441
                  ELSE Traceback                                 \* line 444
         IN IF IsPER(r) /\ r.msg = "checkpointed"                \* line 446
            THEN [ret |-> None, st |-> AwaitingCheckpointFile]   \* lines 451-452
            ELSE [ret |-> r, st |-> Finished]                    \* line 455

\* the result and status of job j after both reaping loops
Reaped(j) ==
    IF j \in local_running_jobs /\ Dead(j) THEN LocalReaped(j)
    ELSE IF j \in remote_futures /\ Dead(j) THEN RemoteReaped(j)
    ELSE [ret |-> rets[j], st |-> status[j]]

\* lines 409-458: the dead local workers, then the done futures, are taken
\* out of the sets and their results recorded
Reap ==
    /\ pc = "reap"
    /\ LET gone == {j \in local_running_jobs \cup remote_futures : Dead(j)} IN
          /\ rets' = [j \in Jobs |-> Reaped(j).ret]
          /\ status' = [j \in Jobs |-> Reaped(j).st]
          /\ local_running_jobs' = local_running_jobs \ gone         \* line 428
          /\ remote_futures' = remote_futures \ gone                 \* line 458
          /\ worker' = [j \in 1..MaxJobs |-> IF j \in gone THEN Idle
                                             ELSE worker[j]]
    /\ pc' = "scan"
    /\ UNCHANGED <<config, num_cps_done, files, pending, errlog, loads, cp_failed, codec, tagfile, bar_progress>>

\* mutant: line 471 without the test that the checkpoint file exists
Scanned_NoFileTest(j) ==
    LET s1 == IF status[j] < 5 /\ IsPER(rets[j]) THEN Errored ELSE status[j]
    IN IF s1 = AwaitingCheckpointFile THEN Waiting ELSE s1

\* mutant: a job whose worker was terminated is made Waiting, to be run again
Scanned_RetryTerminated(j) ==
    IF status[j] < 5 /\ rets[j] = Terminated THEN Waiting
    ELSE IF status[j] < 5 /\ IsPER(rets[j]) THEN Errored
    ELSE IF status[j] = AwaitingCheckpointFile /\ ServerSeesCp(Key(j))
    THEN Waiting ELSE status[j]

\* mutant: the scan without lines 462-463, an error result changes no status
Scanned_NoErrorFlip(j) ==
    IF status[j] = AwaitingCheckpointFile /\ ServerSeesCp(Key(j))
    THEN Waiting ELSE status[j]

\* lines 462-463 and 471-472 for one job: its status after the scan
Scanned(j) ==
    LET s1 == IF status[j] < 5 /\ IsPER(rets[j]) THEN Errored ELSE status[j]
    IN IF s1 = AwaitingCheckpointFile /\ ServerSeesCp(Key(j))
       THEN Waiting ELSE s1

\* mutant: lines 468-469 outside the if of line 462, the text of an error
\* result is written in every scan
ErrLogged_EveryScan(j) ==
    IF IsPER(rets[j]) THEN Append(errlog[j], rets[j].msg) ELSE errlog[j]

\* lines 462 and 468-469 for one job: its .stderr file after the scan
ErrLogged(j) ==
    IF status[j] < 5 /\ IsPER(rets[j])
    THEN Append(errlog[j], rets[j].msg) ELSE errlog[j]

\* mutant: the jobs that wait are counted with those that run
running_jobs_indices_WithWaiting(st) ==
    {j \in Jobs : st[j] \in {Waiting, RunningInline, RunningLocal,
                              RunningRemote}}

\* line 488: the jobs whose status in st is 1, 2 or 3
running_jobs_indices(st) ==
    {j \in Jobs : st[j] \in {RunningInline, RunningLocal, RunningRemote}}

\* lines 495-500 for job j's progress file: no file adds nothing
ReadProgress(j) ==
    IF progfile[Key(j)] = NoFile THEN 0 ELSE progfile[Key(j)]

\* the sum of what the progress files of the jobs in S hold
RECURSIVE ProgressSum(_)
ProgressSum(S) ==
    IF S = {} THEN 0
    ELSE LET j == CHOOSE x \in S : TRUE
         IN ReadProgress(j) + ProgressSum(S \ {j})

\* the jobs whose progress file may be read just when progressrep has opened
\* it for writing (line 626) and not written yet: float() of the empty
\* content raises and the except of line 499 passes
MidWrite ==
    {j \in Jobs : worker[j].pc = "run" /\ progfile[Key(j)] # NoFile}

\* lines 486-502 with the statuses st: the new bar_progress.n, the files of
\* the jobs in unreadable having been read empty
Published(st, unreadable) ==
    LET R == running_jobs_indices(st) IN
    IF R = {} THEN bar_progress
    ELSE Quotient(ProgressSum(R \ unreadable), Cardinality(R))

\* lines 460-503
Scan ==
    /\ pc = "scan"
    /\ status' = [j \in Jobs |-> Scanned(j)]
    /\ errlog' = [j \in 1..MaxJobs |-> IF j \in Jobs THEN ErrLogged(j)
                                        ELSE errlog[j]]
    /\ IF ShowBars
       THEN \E unreadable \in SUBSET MidWrite :
               bar_progress' =
                   Published([j \in Jobs |-> Scanned(j)], unreadable)
       ELSE UNCHANGED bar_progress
    /\ pc' = "loop"
    /\ UNCHANGED <<config, rets, num_cps_done, local_running_jobs,
                   remote_futures, worker, files, pending, loads, cp_failed,
                   codec, tagfile>>

\* lines 518-524 for one key: what the sweep leaves of its checkpoint file
SweptCp(k) ==
    IF (\E j \in Jobs : Key(j) = k) /\ ServerSeesCp(k) THEN NoFile ELSE cpfile[k]

\* lines 518-521 for one key: what the sweep leaves of its progress file
SweptProg(k) ==
    IF \E j \in Jobs : Key(j) = k THEN NoFile ELSE progfile[k]

\* lines 515-528: the finally block, then return rets or the exception
Sweep ==
    /\ pc \in {"finally", "finally_exc"}
    /\ cpfile' = [k \in Keys |-> SweptCp(k)]
    /\ progfile' = [k \in Keys |-> SweptProg(k)]
    /\ pc' = IF pc = "finally" THEN "returned" ELSE "raised"
    /\ UNCHANGED <<config, arrays, local_running_jobs, remote_futures, worker,
                   unsynced, pending, errlog, loads, cp_failed, codec, tagfile, bar_progress>>

\* ------------------------------------------- _pe_wrapper in a worker

Alive(j) == worker[j].pc \in {"boot", "run", "cpw", "ret", "blocked"}

\* mutant: _pe_wrapper without lines 551-553, the checkpoint file is never
\* looked for
WorkerSeesCp_Never(j) == FALSE

\* line 551, os.path.exists(cp_file), evaluated where the worker runs: a
\* local process sees what the server sees, a grid task sees what grid
\* hosts have written
WorkerSeesCp(j) ==
    IF worker[j].loc = "remote" THEN cpfile[Key(j)] # NoFile
    ELSE ServerSeesCp(Key(j))

\* mutant: _pe_wrapper without the os.remove of line 553
Consumed_NoRemove(j) == cpfile

\* line 553: os.remove(cp_file)
Consumed(j) == [cpfile EXCEPT ![Key(j)] = NoFile]

\* lines 543-555: the globals are set; the checkpoint file, if there is one,
\* is loaded and removed.  A file that does not hold a whole pickle cannot be
\* loaded (WBootFail).
WBoot(j) ==
    /\ worker[j].pc = "boot"
    /\ cpfile[Key(j)] # Partial \/ ~WorkerSeesCp(j)
    /\ LET st == IF WorkerSeesCp(j) THEN cpfile[Key(j)] ELSE NoState IN
          /\ worker' = [worker EXCEPT ![j].pc = "run",
                                      ![j].start_state = st,
                                      ![j].i = StartVal(st),
                                      ![j].late = FALSE]        \* line 545
          /\ IF WorkerSeesCp(j)
             THEN /\ cpfile' = Consumed(j)
                  /\ unsynced' = unsynced \ {Key(j)}
             ELSE UNCHANGED <<cpfile, unsynced>>
    /\ pending' = [pending EXCEPT ![j] = NoState]
    /\ loads' = [loads EXCEPT ![j] = IF WorkerSeesCp(j) THEN @ + 1 ELSE @]
    /\ UNCHANGED <<pc, config, arrays, local_running_jobs, remote_futures,
                   progfile, errlog, cp_failed, codec, tagfile, bar_progress>>

\* lines 551-552: the checkpoint file is there and load_checkpoint_state
\* raises.  This is outside the try of line 562: the exception leaves
\* _pe_wrapper, a local process dies with nothing in its pipe, a grid task's
\* result() raises.  The file has not been removed.
WBootFail(j) ==
    /\ worker[j].pc = "boot"
    /\ WorkerSeesCp(j)
    /\ worker' = [worker EXCEPT ![j] =
                     IF worker[j].loc = "local"
                     THEN Ended("local", "empty", None)
                     ELSE Ended("remote", "broken", None)]
    /\ pending' = [pending EXCEPT ![j] = NoState]
    /\ cp_failed' = cp_failed \cup {j}
    /\ UNCHANGED <<pc, config, arrays, local_running_jobs, remote_futures,
                   files, errlog, loads, codec, tagfile, bar_progress>>

\* mutant: line 386 passing timeout where it passes np.nan, a local worker
\* has an end time like a grid task
ProgressrepAnswers_LocalEndTime(j) == BOOLEAN

\* line 629, time.monotonic() > my_end_time, as a call in job j's worker
\* finds it: my_end_time is nan in a local worker (line 386 with line 545), so
\* the answer is False; a grid task has a real end time (lines 400, 545) and
\* finds it passed or not
ProgressrepAnswers(j) ==
    IF worker[j].loc = "remote" THEN {worker[j].late} ELSE {FALSE}

\* lines 562-566 around one pass of the function's loop (lines 641-651), with
\* progressrep (lines 624-629) and checkpoint (lines 579-580, 590-599).
\* write_checkpoint takes two steps: the file is opened for writing (line
\* 595), which creates it, and the pickle is dumped into it and the file
\* closed (lines 596-597).  When either raises, the except of line 564 makes a
\* traceback of it.
WIter(j) ==
    /\ worker[j].pc \in {"run", "cpw"}
    /\ LET w == worker[j]
           at == TestfuncAt(w.i, inputs[j]) IN
       IF w.pc = "cpw"
       THEN \/ /\ cpfile' = [cpfile EXCEPT ![Key(j)] = w.i + 1]
               /\ pending' = [pending EXCEPT ![j] = w.i + 1]
               /\ worker' = [worker EXCEPT ![j] = Returned(w.loc, Checkpointed)]
               /\ UNCHANGED <<unsynced, progfile, cp_failed>>
            \/ /\ worker' = [worker EXCEPT ![j] = Returned(w.loc, Traceback)]
               /\ cp_failed' = cp_failed \cup {j}
               /\ UNCHANGED <<files, pending>>
       ELSE
       CASE at = "return" ->
              /\ worker' = [worker EXCEPT ![j] = Returned(w.loc, Val(CountTo))]
              /\ UNCHANGED <<files, pending, cp_failed>>
         [] at = "raise" ->
              /\ worker' = [worker EXCEPT ![j] = Returned(w.loc, Traceback)]
              /\ UNCHANGED <<files, pending, cp_failed>>
         [] OTHER ->
              /\ progfile' = [progfile EXCEPT ![Key(j)] = Progress100(w.i)]
              /\ \E told \in ProgressrepAnswers(j) :
                    IF told \/ SelfCheckpoints(inputs[j], w.start_state)
                    THEN \/ /\ cpfile' = [cpfile EXCEPT ![Key(j)] = Partial]
                            /\ unsynced' = IF w.loc = "remote"
                                           THEN unsynced \cup {Key(j)}
                                           ELSE unsynced \ {Key(j)}
                            /\ worker' = [worker EXCEPT ![j].pc = "cpw"]
                            /\ UNCHANGED <<pending, cp_failed>>
                         \/ /\ worker' = [worker EXCEPT
                                             ![j] = Returned(w.loc, Traceback)]
                            /\ cp_failed' = cp_failed \cup {j}
                            /\ UNCHANGED <<cpfile, unsynced, pending>>
                    ELSE /\ worker' = [worker EXCEPT ![j].i = w.i + 1]
                         /\ UNCHANGED <<cpfile, unsynced, pending, cp_failed>>
    /\ tagfile' = IF worker'[j].pc = "run" /\ inputs[j] = TagCp
                  THEN [tagfile EXCEPT ![Key(j)] = TagFrame(worker'[j].i)]
                  ELSE tagfile
    /\ UNCHANGED <<pc, config, arrays, local_running_jobs, remote_futures,
                   errlog, loads, codec, bar_progress>>

\* the pickle of the value the function returned is larger than what a pipe
\* holds with nobody reading it
FillsPipe(j) == inputs[j] = BigRet /\ ~IsPER(worker[j].ret)

\* lines 570-572: the result goes into the pipe and the process ends; what
\* was sent can be received ("data") or makes recv() raise ("broken").  A
\* result that fills the pipe leaves the process inside pipe.send (line 571),
\* waiting for the other end to be read.
WSend(j) ==
    /\ worker[j].loc = "local" /\ worker[j].pc = "ret"
    /\ IF FillsPipe(j)
       THEN worker' = [worker EXCEPT ![j].pc = "blocked"]
       ELSE \/ worker' = [worker EXCEPT
                              ![j] = Ended("local", "data", worker[j].ret)]
            \/ worker' = [worker EXCEPT ![j] = Ended("local", "broken", None)]
    /\ UNCHANGED <<pc, config, arrays, local_running_jobs, remote_futures,
                   files, pending, errlog, loads, cp_failed, codec, tagfile, bar_progress>>

\* a local worker process is killed from outside (lines 414-417); one killed
\* inside pipe.send leaves the beginning of a result in the pipe, which
\* recv() cannot read (lines 421-423)
Kill(j) ==
    /\ worker[j].loc = "local" /\ Alive(j)
    /\ worker' = [worker EXCEPT ![j] =
                     Ended("local",
                           IF worker[j].pc = "blocked" THEN "broken"
                           ELSE "empty", None)]
    /\ pending' = [pending EXCEPT ![j] = NoState]
    /\ UNCHANGED <<pc, config, arrays, local_running_jobs, remote_futures,
                   files, errlog, loads, cp_failed, codec, tagfile, bar_progress>>

\* ------------------------------------------------------- the grid backend

\* lines 568-569: pipe is None, the wrapper's return value is the future's
\* result
WReturn(j) ==
    /\ worker[j].loc = "remote" /\ worker[j].pc = "ret"
    /\ worker' = [worker EXCEPT ![j] = Ended("remote", "data", worker[j].ret)]
    /\ UNCHANGED <<pc, config, arrays, local_running_jobs, remote_futures,
                   files, pending, errlog, loads, cp_failed, codec, tagfile, bar_progress>>

\* the future is cancelled: done() and cancelled() (line 435)
Cancel(j) ==
    /\ worker[j].loc = "remote" /\ Alive(j)
    /\ worker' = [worker EXCEPT ![j] = Ended("remote", "empty", None)]
    /\ pending' = [pending EXCEPT ![j] = NoState]
    /\ UNCHANGED <<pc, config, arrays, local_running_jobs, remote_futures,
                   files, errlog, loads, cp_failed, codec, tagfile, bar_progress>>

\* the task fails on the grid: done(), and result() raises (line 442)
GridFail(j) ==
    /\ worker[j].loc = "remote" /\ Alive(j)
    /\ worker' = [worker EXCEPT ![j] = Ended("remote", "broken", None)]
    /\ pending' = [pending EXCEPT ![j] = NoState]
    /\ UNCHANGED <<pc, config, arrays, local_running_jobs, remote_futures,
                   files, errlog, loads, cp_failed, codec, tagfile, bar_progress>>

\* the monotonic clock of the host of job j's grid task passes the
\* my_end_time that line 545 set, 60 * timeout seconds after the task began
Tick(j) ==
    /\ worker[j].loc = "remote" /\ worker[j].pc = "run" /\ ~worker[j].late
    /\ worker' = [worker EXCEPT ![j].late = TRUE]
    /\ UNCHANGED <<pc, config, arrays, local_running_jobs, remote_futures,
                   files, pending, errlog, loads, cp_failed, codec, tagfile, bar_progress>>

\* a checkpoint file written on a grid host becomes accessible on the server
\* (the comment of lines 447-450)
FsSync(k) ==
    /\ k \in unsynced
    /\ unsynced' = unsynced \ {k}
    /\ UNCHANGED <<pc, config, arrays, local_running_jobs, remote_futures,
                   worker, cpfile, progfile, pending, errlog, loads, cp_failed, codec, tagfile, bar_progress>>

\* ---------------------------------------------------------- specifications

Common ==
    \/ Startup \/ StartupFails
    \/ LoopExit \/ DispatchInline \/ DispatchLocal \/ NoDispatch
    \/ InlineReturn \/ InlineRaise
    \/ Reap \/ Scan \/ Sweep
    \/ \E j \in Jobs : WBoot(j)
    \/ \E j \in Jobs : WIter(j)
    \/ \E j \in Jobs : WSend(j)
    \/ \E j \in Jobs : Kill(j)

Next == Common \/ DispatchRemote

NextGrid ==
    \/ Common
    \/ DispatchRemoteGrid
    \/ \E j \in Jobs : WReturn(j)
    \/ \E j \in Jobs : Cancel(j)
    \/ \E j \in Jobs : GridFail(j)
    \/ \E j \in Jobs : WBootFail(j)
    \/ \E j \in Jobs : Tick(j)
    \/ \E k \in Keys : FsSync(k)

\* the code as it stands
Spec == Init /\ [][Next]_vars

\* the code with the grid submission of lines 396-402 in place
SpecGrid == Init /\ [][NextGrid]_vars

\* the code as it stands, given a user function that may return
\* checkpoint(state) without having been asked to
SpecSelf == InitSelf /\ [][Next]_vars

\* ---------------------------------- write_checkpoint and reading it back

\* a worker of a job of _testfunc calls write_checkpoint(state, tag): my_func
\* and my_args are what _pe_wrapper stored (lines 546-547)
InitCodec ==
    /\ pc = "codec"
    /\ inputs = << >> /\ jobids = << >>
    /\ debug = FALSE /\ num_locals = 0 /\ num_remotes = 0
    /\ status = << >> /\ rets = << >> /\ num_cps_done = << >>
    /\ local_running_jobs = {} /\ remote_futures = {}
    /\ worker = [j \in 1..MaxJobs |-> Idle]
    /\ cpfile = [k \in Keys |-> NoFile]
    /\ progfile = [k \in Keys |-> NoFile]
    /\ unsynced = {}
    /\ errlog = [j \in 1..MaxJobs |-> << >>]
    /\ pending = [j \in 1..MaxJobs |-> NoState]
    /\ loads = [j \in 1..MaxJobs |-> 0]
    /\ cp_failed = {}
    /\ tagfile = [k \in Keys |-> NoBytes]
    /\ bar_progress = Quotient(0, 1)
    /\ \E st \in CpStates, tg \in {"", "tag"}, error_at \in ErrorAts :
          codec = [CodecOff EXCEPT !.phase = "call", !.state = st, !.tag = tg,
                                   !.input = PyTuple(<<CountTo, error_at>>)]

\* lines 582-599
write_checkpoint ==
    /\ codec.phase = "call"
    /\ codec' = [codec EXCEPT
                    !.phase = "written",
                    !.path = CpFileName(codec.tag),
                    !.frame = Lz4Write(DumpsCpdata(
                                 Cpdata(codec.state, 1, codec.input)))]
    /\ UNCHANGED <<pc, config, arrays, local_running_jobs, remote_futures,
                   worker, files, errlog, pending, loads, cp_failed,
                   tagfile, bar_progress>>

\* load_checkpoint_state(fname) called with the path write_checkpoint returned
ReadBack ==
    /\ codec.phase = "written"
    /\ codec' = [codec EXCEPT !.phase = "loaded",
                              !.out = load_checkpoint_state(codec.frame)]
    /\ UNCHANGED <<pc, config, arrays, local_running_jobs, remote_futures,
                   worker, files, errlog, pending, loads, cp_failed,
                   tagfile, bar_progress>>

NextCodec == write_checkpoint \/ ReadBack

\* one call of write_checkpoint and one of load_checkpoint_state on its file
SpecCodec == InitCodec /\ [][NextCodec]_vars

\* a step of start() itself
StartStep ==
    \/ Startup \/ StartupFails
    \/ LoopExit \/ DispatchInline \/ DispatchLocal \/ DispatchRemote
    \/ NoDispatch \/ InlineReturn \/ InlineRaise
    \/ Reap \/ Scan \/ Sweep

\* a step of job j's worker process running _pe_wrapper
WorkerStep(j) == WBoot(j) \/ WIter(j) \/ WSend(j)

\* the code as it stands, where start() keeps running (each pass of its loop
\* ends, line 407 sleeps one second) and every worker process that is not
\* killed runs on until it exits
SpecLive ==
    /\ Spec
    /\ WF_vars(StartStep)
    /\ \A j \in 1..MaxJobs : WF_vars(WorkerStep(j))

\* the user function is _testfunc, or for some jobs one that writes tagged
\* checkpoints
InitTag == InitWith(ErrorAts \cup {TagCp})

\* after start() has returned, restore_checkpoint is called with the tagged
\* checkpoint file of key k (module docstring, lines 59-70)
Restore(k) ==
    /\ pc = "returned" /\ tagfile[k] # NoBytes
    /\ pc' = IF restore_checkpoint(tagfile[k]) = "called"
             THEN "restored" ELSE "restore_raised"
    /\ UNCHANGED <<config, arrays, local_running_jobs, remote_futures, worker,
                   files, pending, errlog, loads, cp_failed, codec, tagfile, bar_progress>>

NextTag == Next \/ \E k \in Keys : Restore(k)

\* the code as it stands, given a user function that may write tagged
\* checkpoints, and a caller that restores one of them afterwards
SpecTag == InitTag /\ [][NextTag]_vars

\* the user function is _testfunc, or for some jobs one that returns a large
\* value
InitBig == InitWith(ErrorAts \cup {BigRet})

\* the code as it stands, given a user function that may return a large
\* value, with start() and the worker processes running on as in SpecLive
SpecBig ==
    /\ InitBig /\ [][Next]_vars
    /\ WF_vars(StartStep)
    /\ \A j \in 1..MaxJobs : WF_vars(WorkerStep(j))

\* ------------------------------------------------------------------ properties

\* the value job j's call of _testfunc returns when it runs to its end
\* (line 651)
FinalValue(j) == Val(CountTo)

\* C1: when start() returns, the list has one element per input, in input
\* order, and element j is the value job j's function returned or a
\* ParexecErrorReturn, never the None that rets starts with.
C1_ReturnedListComplete ==
    pc = "returned" =>
        /\ Len(rets) = Len(inputs)
        /\ \A j \in Jobs : rets[j] = FinalValue(j) \/ IsPER(rets[j])

\* C2: the loop ends normally only when every job is Finished or Errored.
C2_LoopExitsOnlyWhenAllTerminal ==
    pc \in {"finally", "returned"} =>
        \A j \in Jobs : status[j] \in {Finished, Errored}

\* C3: an exception of a job's function never makes start() raise; the job
\* ends Errored with the traceback and the loop goes on.
C3_JobFailureNeverAbortsBatch ==
    /\ pc \notin {"finally_exc", "raised"}
    /\ \A j \in Jobs : pc = "returned" /\ rets[j] = Traceback
                          => status[j] = Errored

\* C4: a state S given to checkpoint() by a grid job is handed to a later
\* invocation of that job, which loads the file: by the time start() returns
\* no such state is still waiting to be resumed.
C4_CheckpointResumed ==
    pc = "returned" => \A j \in Jobs : pending[j] = NoState

\* C5: once start() has returned or raised out of its loop, no .checkpoint
\* and no .progress file of a job of the batch is on disk.
C5_NoFilesAfterExit ==
    pc \in {"returned", "raised"} =>
        \A j \in Jobs : cpfile[Key(j)] = NoFile /\ progfile[Key(j)] = NoFile

\* what start() is given violates a precondition of its entry checks
BadStart == num_jobs = 0 \/ ~JobidsUnique \/ ~CpPathClean

\* nothing of the batch has been started: no array, no worker, no tracking
NothingStarted ==
    /\ status = << >> /\ rets = << >>
    /\ local_running_jobs = {} /\ remote_futures = {}
    /\ \A j \in 1..MaxJobs : worker[j] = Idle

\* C6: with an empty input list, a repeated job id, or a .checkpoint or
\* .progress file already under a job's key, start() fails before anything is
\* dispatched: no worker is started, no function is called, no status is set,
\* and nothing happens afterwards.
C6_StartupPreconditions ==
    [][/\ (pc = "init" /\ BadStart) =>
             (pc' = "failed" /\ NothingStarted' /\ UNCHANGED files)
       /\ pc = "failed" => UNCHANGED vars]_vars

C6_Witness == pc = "failed" /\ num_jobs = 2 /\ ~JobidsUnique /\ CpPathClean

\* a step of start() through its reaping loops, and one through its scan
ReapStep == pc = "reap" /\ pc' = "scan"
ScanStep == pc = "scan" /\ pc' = "loop"

\* C7: a local worker found not alive with nothing in its pipe gets the result
\* ParexecErrorReturn("terminated"); the reaping loop leaves its status alone,
\* the scan that ends the same iteration makes it Errored, and it is never
\* Finished.
C7_TerminatedLocalWorker ==
    [][/\ ReapStep =>
             \A j \in local_running_jobs :
                 (Dead(j) /\ worker[j].out = "empty") =>
                     (rets'[j] = Terminated /\ status'[j] = RunningLocal)
       /\ ScanStep =>
             \A j \in Jobs : rets'[j] = Terminated => status'[j] = Errored
       /\ \A j \in DOMAIN rets' :
             rets'[j] = Terminated => status'[j] # Finished]_vars

C7_Witness ==
    \E j \in Jobs : pc = "loop" /\ status[j] = Errored /\ rets[j] = Terminated

\* C8: a done future that was cancelled leaves ParexecErrorReturn("terminated")
\* as the job's result, one whose result() raises leaves the formatted
\* failure; the scan that ends the same iteration makes the job Errored, and
\* start() does not raise.
C8_DoneFutureFailures ==
    [][/\ ReapStep =>
             \A j \in remote_futures :
                 /\ (Dead(j) /\ worker[j].out = "empty") => rets'[j] = Terminated
                 /\ (Dead(j) /\ worker[j].out = "broken") => rets'[j] = Traceback
       /\ ScanStep =>
             \A j \in Jobs :
                 rets'[j] \in {Terminated, Traceback} => status'[j] = Errored
       /\ ~debug => pc' \notin {"finally_exc", "raised"}]_vars

\* no local worker can run, so each job went to the grid: job 1's future was
\* cancelled, job 2's future raised from result() though its function does
\* not raise
C8_Witness ==
    /\ pc = "scan" /\ num_jobs = 2 /\ num_locals = 0 /\ inputs[2] = NoError
    /\ status[1] = Errored /\ rets[1] = Terminated
    /\ status[2] = Finished /\ rets[2] = Traceback

\* C9: a job becomes AwaitingCheckpointFile only in the reaping of its done
\* future, from RunningRemote, with the "checkpointed" marker as the future's
\* result, and its result slot is None after that step; it leaves
\* AwaitingCheckpointFile only for Waiting, in a scan that finds its
\* checkpoint file; a job is dispatched only from Waiting.
C9_CheckpointedJobTransitions ==
    [][pc # "init" =>
         \A j \in Jobs :
            /\ (status'[j] = AwaitingCheckpointFile /\ status[j] # status'[j]) =>
                  /\ ReapStep /\ status[j] = RunningRemote
                  /\ j \in remote_futures /\ Dead(j)
                  /\ worker[j].out = "data" /\ worker[j].ret = Checkpointed
                  /\ rets'[j] = None
            /\ (status[j] = AwaitingCheckpointFile /\ status[j] # status'[j]) =>
                  /\ ScanStep /\ status'[j] = Waiting
                  /\ ServerSeesCp(Key(j))
            /\ (status'[j] \in {RunningInline, RunningLocal, RunningRemote}
                    /\ status[j] # status'[j]) =>
                  status[j] = Waiting]_vars

\* a job that was AwaitingCheckpointFile has been dispatched again and runs
\* from the state it had saved
C9_Witness ==
    \E j \in Jobs : worker[j].pc = "run" /\ worker[j].start_state # NoState

\* C10 as claimed: once a job is Finished or Errored, no step changes its
\* status or its result slot.
C10_TerminalUnchanged ==
    [][pc # "init" =>
         \A j \in Jobs :
            status[j] \in {Finished, Errored} =>
                (status'[j] = status[j] /\ rets'[j] = rets[j])]_vars

\* C10 as amended: an Errored job stays Errored; a Finished job stays Finished
\* except that the scan ending the iteration that reaped it makes it Errored
\* when its result is a ParexecErrorReturn; the result slot of a Finished or
\* Errored job never changes.
C10_TerminalAfterScan ==
    [][pc # "init" =>
         \A j \in Jobs :
            /\ status[j] = Errored => status'[j] = Errored
            /\ status[j] = Finished =>
                  \/ status'[j] = Finished
                  \/ (ScanStep /\ IsPER(rets[j]) /\ status'[j] = Errored)
            /\ (status[j] = Finished /\ pc # "scan") => status'[j] = Finished
            /\ status[j] \in {Finished, Errored} => rets'[j] = rets[j]]_vars

\* the reaping loop has marked a job Finished whose result is an error
C10_Witness ==
    \E j \in Jobs : pc = "scan" /\ status[j] = Finished /\ IsPER(rets[j])

\* the jobs whose status is st
WithStatus(st) == {j \in Jobs : status[j] = st}

\* start() goes through lines 353-403 with a job waiting
DecisionStep == pc = "loop" /\ pc' \in {"inline", "reap"} /\ AnyWaiting

\* C11: the job selected in an iteration runs inline in debug mode; otherwise
\* it goes to a local worker if fewer than num_locals are tracked; otherwise
\* to the grid if fewer than num_remotes jobs are RunningRemote; otherwise it
\* stays Waiting.  No other job's status changes in that step.
C11_DispatchLadder ==
    [][DecisionStep =>
         /\ \A j \in Jobs \ {nextidx} : status'[j] = status[j]
         /\ status'[nextidx] =
               IF debug THEN RunningInline
               ELSE IF Cardinality(local_running_jobs) < num_locals
               THEN RunningLocal
               ELSE IF Cardinality(WithStatus(RunningRemote)) < num_remotes
               THEN RunningRemote
               ELSE Waiting]_vars

\* C12: in a run that is not in debug mode, the local workers tracked as
\* running, and the jobs with status RunningLocal, number at most num_locals.
C12_LocalCap ==
    (~debug /\ pc \notin {"init", "failed"}) =>
        /\ Cardinality(local_running_jobs) <= num_locals
        /\ Cardinality(WithStatus(RunningLocal)) <= num_locals

\* the local pool is full and a job had to stay Waiting
C12_Witness ==
    /\ pc = "reap" /\ ~debug /\ num_locals = 1 /\ num_remotes = 0
    /\ Cardinality(local_running_jobs) = 1
    /\ WithStatus(RunningLocal) # {} /\ WithStatus(Waiting) # {}

\* C13: the jobs with status RunningRemote number at most num_remotes.
C13_RemoteCap ==
    pc \notin {"init", "failed"} =>
        Cardinality(WithStatus(RunningRemote)) <= num_remotes

\* C14: every call of progressrep in a job that runs locally or inline
\* answers False: the local worker writes its progress and goes on to the next
\* pass, and neither it nor the inline call writes a checkpoint file or ends
\* with the "checkpointed" marker.
C14_LocalNeverAskedToCheckpoint ==
    [][/\ \A j \in Jobs :
             (/\ worker[j].loc = "local" /\ worker[j].pc = "run"
              /\ TestfuncAt(worker[j].i, inputs[j]) = "progressrep"
              /\ worker'[j] # worker[j] /\ worker'[j].pc # "dead") =>
                 /\ worker'[j].pc = "run" /\ worker'[j].i = worker[j].i + 1
                 /\ progfile'[Key(j)] = Progress100(worker[j].i)
                 /\ cpfile' = cpfile
       /\ (pc = "inline" /\ pc' # "inline") =>
             /\ cpfile' = cpfile
             /\ pc' = "reap" => rets'[InlineJob] = FinalValue(InlineJob)]_vars

\* a local worker has called progressrep in every pass of its loop
C14_Witness ==
    \E j \in Jobs : /\ worker[j].loc = "local" /\ worker[j].pc = "run"
                    /\ worker[j].i = CountTo /\ progfile[Key(j)] # NoFile

\* what job j's call gives when it runs from start_state None to its end in
\* one invocation: its return value, or the traceback of what it raised
Uninterrupted(j) ==
    LET r == InlineRun(StartVal(NoState), inputs[j], NoFile)
    IN IF r.kind = "return" THEN r.ret ELSE Traceback

\* one job, one local slot, not in debug mode
OneLocalJob == num_jobs = 1 /\ num_locals = 1 /\ ~debug

\* C15 as claimed: with one job and num_locals = 1, by the time start()
\* returns the job has checkpointed and a resumed invocation has loaded the
\* file, and the result is that of an uninterrupted run.
C15_LocalJobCheckpoints ==
    (OneLocalJob /\ pc = "returned") =>
        loads[1] >= 1 /\ rets[1] = Uninterrupted(1)

\* C15 as amended: with one job and num_locals = 1 the job runs in a local
\* worker and never checkpoints: no checkpoint file is written or loaded, and
\* the result at return is that of an uninterrupted run, or "terminated" or a
\* transport traceback when the worker was killed or its pipe could not be read.
C15_LocalJobNeverCheckpoints ==
    (OneLocalJob /\ pc \notin {"init", "failed"}) =>
        /\ loads[1] = 0 /\ cpfile[Key(1)] = NoFile
        /\ status[1] \in {Waiting, RunningLocal, Finished, Errored}
        /\ pc = "returned" =>
              rets[1] \in {Uninterrupted(1), Terminated, Traceback}

\* the job has run to its end in one invocation and start() has returned its value
C15_Witness ==
    /\ OneLocalJob /\ pc = "returned"
    /\ inputs[1] = NoError /\ rets[1] = Val(CountTo) /\ status[1] = Finished

\* no grid, at least one local slot, not in debug mode
LocalOnly == num_remotes = 0 /\ num_locals >= 1 /\ ~debug

\* every job is Finished or Errored and no file of the batch is left
AllEndedClean ==
    \A j \in Jobs :
        /\ status[j] \in {Finished, Errored}
        /\ cpfile[Key(j)] = NoFile /\ progfile[Key(j)] = NoFile

C17_CheckpointIOFailureFatal ==
    \A j \in cp_failed : pc # "returned" /\ status[j] # Errored

\* C19: a job whose function ended by returning checkpoint(state) is
\* scheduled again with that state: the "checkpointed" marker is never a
\* job's result, and when start() returns no saved state is left unresumed.
C19_CheckpointAlwaysResumed ==
    /\ \A j \in DOMAIN rets : rets[j] # Checkpointed
    /\ pc = "returned" => \A j \in Jobs : pending[j] = NoState

\* job j becomes Errored in this step
BecomesErrored(j) == status'[j] = Errored /\ status[j] # Errored

\* C18: a job becomes Errored only in the scan of start()'s loop, and that
\* scan appends the text of the job's ParexecErrorReturn to its .stderr file;
\* nothing else writes there, so the text is in the file once, from the
\* iteration that recorded the result on, while the loop is still running.
C18_ErrorTextLoggedOnce ==
    [][pc # "init" =>
         \A j \in Jobs :
            /\ BecomesErrored(j) =>
                  /\ ScanStep /\ IsPER(rets[j])
                  /\ errlog'[j] = Append(errlog[j], rets[j].msg)
            /\ ~BecomesErrored(j) => errlog'[j] = errlog[j]
            /\ status'[j] = Errored => errlog'[j] = <<rets'[j].msg>>
            /\ (pc' = "loop" /\ IsPER(rets'[j])) => status'[j] = Errored]_vars

\* a job's traceback is in its .stderr file while another job is still running
C18_Witness ==
    \E j, k \in Jobs :
        /\ pc = "loop" /\ status[j] = Errored /\ errlog[j] = <<"traceback">>
        /\ status[k] = RunningLocal

\* C20: the job an iteration dispatches is a Waiting job that has consumed
\* the fewest checkpoints among the Waiting jobs, and the earliest in input
\* order among those.
C20_FewestCheckpointsFirst ==
    [][DecisionStep =>
         \A j \in Jobs :
            (status[j] = Waiting /\ status'[j] # Waiting) =>
                \A k \in Jobs :
                    status[k] = Waiting =>
                        \/ loads[j] < loads[k]
                        \/ (loads[j] = loads[k] /\ j <= k)]_vars

\* C21: the state load_checkpoint_state reads from the file write_checkpoint
\* wrote, with a tag or without, is the state that was written; the file is
\* named after the tag; and the record in the file holds, next to the state,
\* the function and the arguments of the call.
C21_CheckpointRoundTrip ==
    /\ codec.phase = "loaded" => codec.out = codec.state
    /\ codec.phase \in {"written", "loaded"} =>
          /\ codec.path = CpFileName(codec.tag)
          /\ (codec.tag # "") = (Len(codec.path) = 4)
          /\ LoadsCpdata(Lz4Read(codec.frame)) =
                Cpdata(codec.state, 1, codec.input)

\* a tuple was written under a tag and read back
C21_Witness ==
    /\ codec.phase = "loaded" /\ codec.tag = "tag"
    /\ codec.state = PyTuple(<<1, 0>>) /\ codec.out = PyTuple(<<1, 0>>)

StatusIs(j, st) == j \in DOMAIN status /\ status[j] = st

\* C24: a job that is RunningRemote does not stay so for ever: its grid task
\* is polled and, once done, reaped.  A batch with num_remotes >= 1 and more
\* Waiting jobs than free local slots, so that a job goes to the grid,
\* eventually returns.
C24_RemoteJobLeaves ==
    /\ \A j \in 1..MaxJobs :
          StatusIs(j, RunningRemote) ~> ~StatusIs(j, RunningRemote)
    /\ (/\ pc = "loop" /\ ~debug /\ num_remotes >= 1
        /\ Cardinality(WithStatus(Waiting)) >
               num_locals - Cardinality(local_running_jobs))
           ~> (pc = "returned")

\* C25: a local worker whose function has returned or raised has its result
\* received: its job does not stay RunningLocal, however large the result.
C25_LocalResultReceived ==
    \A j \in 1..MaxJobs :
        (/\ StatusIs(j, RunningLocal)
         /\ worker[j].loc = "local" /\ worker[j].pc = "ret")
            ~> ~StatusIs(j, RunningLocal)

\* C26: a local worker that starts its function has loaded the job's untagged
\* checkpoint file, removed it and passes its state as start_state when the
\* file was there, and passes None when it was not; a job dispatched inline
\* has no checkpoint file and its function is called with None.
C26_StartStateFromCheckpoint ==
    [][/\ \A j \in Jobs :
             (/\ worker[j].loc = "local" /\ worker[j].pc = "boot"
              /\ worker'[j].pc = "run") =>
                 IF ServerSeesCp(Key(j))
                 THEN /\ worker'[j].start_state = cpfile[Key(j)]
                      /\ worker'[j].i = cpfile[Key(j)]
                      /\ cpfile'[Key(j)] = NoFile
                 ELSE /\ worker'[j].start_state = NoState
                      /\ worker'[j].i = 0
                      /\ cpfile' = cpfile
       /\ (pc = "loop" /\ pc' = "inline") =>
             /\ cpfile[Key(nextidx)] = NoFile
             /\ InlineResult' =
                   InlineRun(0, inputs[nextidx], progfile[Key(nextidx)])]_vars

\* a local worker runs from the state of a checkpoint file it loaded and
\* removed
C26_Witness ==
    \E j \in Jobs :
        /\ worker[j].loc = "local" /\ worker[j].pc = "run"
        /\ worker[j].start_state = 1 /\ worker[j].i = 1
        /\ loads[j] = 1 /\ cpfile[Key(j)] = NoFile

\* the jobs a step takes out of Waiting
Dispatched ==
    {j \in Jobs : status[j] = Waiting /\ status'[j] \in
                      {RunningInline, RunningLocal, RunningRemote}}

\* C27: a pass of the loop dispatches one job at most, and a dispatch is
\* followed by the pacing sleep, the reaping and the scanning before the loop
\* is at its head again: any two dispatches have a whole reap-and-scan pass
\* between them.
C27_OneDispatchPerPass ==
    [][pc # "init" =>
         /\ Cardinality(Dispatched) <= 1
         /\ Dispatched # {} => pc = "loop" /\ pc' \in {"inline", "reap"}
         /\ (pc = "inline" /\ pc' # pc) => pc' \in {"reap", "finally_exc"}
         /\ (pc = "reap" /\ pc' # pc) => pc' = "scan"
         /\ (pc = "scan" /\ pc' # pc) => pc' = "loop"
         /\ (pc' = "loop" /\ pc' # pc) => pc = "scan"]_vars

\* the second of two local workers has just been started, a pass after the
\* first
C27_Witness ==
    /\ pc = "reap" /\ num_locals = 2 /\ status = <<RunningLocal, RunningLocal>>
    /\ worker[2].pc = "boot" /\ worker[1].pc # "boot"

\* C28: in debug mode no job is RunningLocal or RunningRemote and no worker
\* exists, one job at most is RunningInline, and the jobs run in input order,
\* one after the other: a job that has been dispatched has only ended jobs
\* before it.
C28_DebugSequential ==
    (debug /\ pc \notin {"init", "failed", "codec"}) =>
        /\ WithStatus(RunningLocal) \cup WithStatus(RunningRemote) = {}
        /\ local_running_jobs = {} /\ remote_futures = {}
        /\ \A j \in 1..MaxJobs : worker[j] = Idle
        /\ Cardinality(WithStatus(RunningInline)) <= 1
        /\ pc \in {"loop", "reap", "scan"} => WithStatus(RunningInline) = {}
        /\ \A i, j \in Jobs :
              (i < j /\ status[j] # Waiting) => status[i] \in {Finished, Errored}

\* the second job runs in the scheduler after the first has ended
C28_Witness ==
    /\ debug /\ pc = "inline" /\ num_jobs = 2
    /\ status = <<Finished, RunningInline>> /\ rets[1] = Val(CountTo)

\* C29: with num_locals >= 1, a job that is Waiting, from the start or again
\* after its checkpoint file was seen, is eventually dispatched.
C29_WaitingDispatched ==
    \A j \in 1..MaxJobs :
        (/\ pc \in {"loop", "inline", "reap", "scan"} /\ num_locals >= 1
         /\ StatusIs(j, Waiting))
            ~> ~StatusIs(j, Waiting)

\* job j's grid task is inside its function and the step is its own, not the
\* clock's and not the grid's ending it
OwnStep(j) ==
    /\ worker[j].loc = "remote" /\ worker[j].pc = "run"
    /\ worker'[j] # worker[j]
    /\ worker'[j] # [worker[j] EXCEPT !.late = TRUE]
    /\ worker'[j].pc # "dead"

\* C30: in a grid task progressrep answers False as long as the task's time
\* budget has not passed and True once it has: before that the task is never
\* sent to write a checkpoint, after it the task never goes on to its next
\* pass.  The budget, once passed, stays passed for as long as the task
\* runs, and a task that resumes from a checkpoint starts with a new one.
C30_TimeoutBudget ==
    [][\A j \in Jobs :
          /\ (OwnStep(j) /\ ~worker[j].late) =>
                 /\ worker'[j].pc # "cpw"
                 /\ cpfile' = cpfile /\ cp_failed' = cp_failed
          /\ (OwnStep(j) /\ worker[j].late) =>
                 \/ worker'[j].pc = "cpw"
                 \/ worker'[j].ret \in {Val(CountTo), Traceback}
          /\ (worker[j].late /\ worker'[j].pc = "run") => worker'[j].late
          /\ (worker[j].pc = "boot" /\ worker'[j].pc = "run") =>
                 ~worker'[j].late]_vars

\* a grid task that was resumed from the checkpoint of an earlier one has used
\* up its own budget as well
C30_Witness ==
    \E j \in Jobs :
        /\ worker[j].loc = "remote" /\ worker[j].pc = "cpw" /\ worker[j].late
        /\ loads[j] = 1 /\ worker[j].start_state = 1

\* job j has an execution in flight: a worker process or grid task that has
\* not ended, an entry in one of the tracking sets, or the inline call
InFlight(j) ==
    \/ Alive(j)
    \/ j \in local_running_jobs \cup remote_futures
    \/ status[j] = RunningInline

\* C31: a job has one execution in flight at most.  A worker that has not
\* ended belongs to a job that is running where the worker is and is tracked
\* there, so that the job is not Waiting; the job a pass dispatches is a
\* Waiting one with no worker, no tracked handle and no inline call of its
\* own, and a worker begins only for such a job.
C31_OneExecutionPerJob ==
    [][(pc \in {"loop", "inline", "reap", "scan"}) =>
         /\ \A j \in Jobs :
               /\ (Alive(j) /\ worker[j].loc = "local") =>
                      status[j] = RunningLocal /\ j \in local_running_jobs
               /\ (Alive(j) /\ worker[j].loc = "remote") =>
                      status[j] = RunningRemote /\ j \in remote_futures
               /\ (worker'[j].pc = "boot" /\ worker[j].pc # "boot") =>
                      status[j] = Waiting /\ ~InFlight(j)
               /\ j \notin local_running_jobs \cap remote_futures
         /\ (DecisionStep /\ (debug \/ LocalSlotFree \/ RemoteSlotFree)) =>
               (status[nextidx] = Waiting /\ ~InFlight(nextidx))
      ]_vars

\* a job that checkpointed on the grid has been dispatched again: its new
\* grid task is about to load the state the ended one saved
C31_Witness ==
    \E j \in Jobs :
        /\ worker[j].loc = "remote" /\ worker[j].pc = "boot"
        /\ pending[j] = 1 /\ cpfile[Key(j)] = 1 /\ loads[j] = 0
        /\ status[j] = RunningRemote /\ remote_futures = {j}

\* C32: when a pass of the loop has ended, every job's status and result
\* agree: the job is Errored exactly when its result is a ParexecErrorReturn,
\* a Finished job holds the value its function returned, and a job that is
\* Waiting, running or awaiting its checkpoint file holds None.
C32_StatusResultAgree ==
    pc = "loop" =>
        \A j \in Jobs :
            /\ status[j] = Errored <=> IsPER(rets[j])
            /\ status[j] = Finished => rets[j] = FinalValue(j)
            /\ status[j] \notin {Finished, Errored} => rets[j] = None

\* a pass has ended with one job Errored because its worker was terminated,
\* one job Finished and none left to run
C32_Witness ==
    /\ pc = "loop" /\ num_jobs = 2
    /\ status = <<Errored, Finished>>
    /\ rets = <<Terminated, Val(CountTo)>>

\* C33: when a pass of the loop has ended, the jobs with status RunningLocal
\* are the jobs in local_running_jobs and the jobs with status RunningRemote
\* are the jobs in remote_futures.
C33_TrackingMatchesStatus ==
    pc = "loop" =>
        /\ WithStatus(RunningLocal) = local_running_jobs
        /\ WithStatus(RunningRemote) = remote_futures

\* the step is one of job j's own execution: of its worker process, or of the
\* inline call made for it
ExecStep(j) ==
    \/ Alive(j) /\ worker'[j] # worker[j]
    \/ pc = "inline" /\ status[j] = RunningInline /\ pc' # pc

\* the checkpoint and progress files under key k are what they were
FilesKept(k) == cpfile'[k] = cpfile[k] /\ progfile'[k] = progfile[k]

\* C34: a step of a job's execution, with its calls of progressrep and
\* checkpoint, changes files under that job's own key only: every other key,
\* and with it every other job's checkpoint and progress file, is left as it
\* was, in a local worker and in the inline call alike.
C34_OwnFilesOnly ==
    [][\A j \in Jobs :
          ExecStep(j) =>
              /\ \A k \in Keys \ {Key(j)} : FilesKept(k)
              /\ \A o \in Jobs \ {j} : FilesKept(Key(o))]_vars

\* one job's worker has written its checkpoint next to the progress file of
\* another job's running worker
C34_Witness ==
    /\ num_jobs = 2 /\ Alive(2) /\ worker[2].pc = "run"
    /\ cpfile[Key(1)] = 1 /\ progfile[Key(1)] # NoFile
    /\ cpfile[Key(2)] = NoFile /\ progfile[Key(2)] # NoFile

\* the step is the sweep of the finally block (lines 515-524)
SweepStep == pc \in {"finally", "finally_exc"} /\ pc' # pc

\* the part of C35 about what a tagged write leaves alone: a step that
\* writes a tagged checkpoint file changes no untagged checkpoint file, no
\* status and no result; a worker that starts takes its state from the
\* untagged file only and leaves the tagged one; the sweep leaves it too, and
\* once written it is there for good.
C35_TaggedLeftAlone ==
    [][/\ \A k \in Keys :
             /\ tagfile'[k] # tagfile[k] =>
                    /\ cpfile' = cpfile /\ pending' = pending
                    /\ status' = status \/ pc = "inline"
                    /\ rets' = rets \/ pc = "inline"
             /\ tagfile[k] # NoBytes => tagfile'[k] # NoBytes
       /\ SweepStep => tagfile' = tagfile
       /\ \A j \in Jobs :
             (worker[j].pc = "boot" /\ worker'[j].pc = "run") =>
                 /\ tagfile' = tagfile
                 /\ worker'[j].start_state =
                        IF WorkerSeesCp(j) THEN cpfile[Key(j)] ELSE NoState
      ]_vars

\* C35: a call of write_checkpoint with a tag leaves the job's untagged
\* checkpoint file, its status and its result as they were; the tagged file
\* is not loaded by a resumed worker and not removed by the sweep, and
\* restore_checkpoint, called with it after start() has returned, makes the
\* call again from the stored state.
C35_TaggedCheckpointRestorable ==
    /\ C35_TaggedLeftAlone
    /\ [](pc # "restore_raised")

\* C36: the progress a pass publishes is the sum of what the progress files
\* of the jobs that are RunningInline, RunningLocal or RunningRemote hold,
\* divided by the number of those jobs; a job with no progress file, or with
\* one that cannot be read, adds 0, and jobs of any other status are not
\* counted.  With no such job the pass publishes nothing new.
C36_AggregateProgress ==
    [][(ScanStep /\ ShowBars) =>
          LET R == WithStatus(RunningInline)' \cup WithStatus(RunningLocal)'
                      \cup WithStatus(RunningRemote)'
          IN IF R = {} THEN bar_progress' = bar_progress
             ELSE /\ bar_progress'.den = Cardinality(R)
                  /\ \E U \in SUBSET {j \in R : Alive(j)} :
                        bar_progress'.num = ProgressSum(R \ U)
                  /\ bar_progress'.num <= 100 * bar_progress'.den
      ]_vars

\* a pass has published 50 / 2: of two jobs in local workers one has
\* reported half of its work and the other none
C36_Witness ==
    /\ pc = "loop" /\ status = <<RunningLocal, RunningLocal>>
    /\ progfile[Key(1)] = Progress100(1) /\ progfile[Key(2)] = NoFile
    /\ bar_progress = Quotient(Progress100(1), 2)

====
